---- MODULE Spec2Model ----
(***************************************************************************)
(* TouchSensor (src/Draggable/Sensors/TouchSensor/TouchSensor.js): the     *)
(* touch-to-drag gesture state machine.  The sensor's fields, the listener *)
(* tables of the document and of the elements, the browser's timer table   *)
(* and the drag events handed to Sensor.trigger are the state; every       *)
(* handler of the class is one action.                                     *)
(***************************************************************************)
EXTENDS Integers, Sequences, FiniteSets, TLC

\* ---------------------------------------------------------------- bounds
MaxTimers == 2        \* touch-starts that arm a long-press timer
MaxLog == 2           \* drag events handed to trigger
MaxTimedTimers == 1   \* the same as MaxTimers, under the clock of SpecTimed
MaxTime == 3          \* clock ticks
MaxTouchTimers == 1   \* the same as MaxTimers, under the touch lists of SpecTouch
Delay == 2            \* options.delay, in clock ticks

\* ------------------------------------------------------------------- DOM
None == "none"
Document == "document"

\* a -> c1 -> s1 -> body,  b -> c2 -> body,  x -> body
Elements == {"body", "s1", "c1", "a", "c2", "b", "x"}
Nodes == Elements \cup {Document}

parentNode(e) ==
  CASE e = "a" -> "c1"
    [] e = "c1" -> "s1"
    [] e = "s1" -> "body"
    [] e = "b" -> "c2"
    [] e = "c2" -> "body"
    [] e = "x" -> "body"
    [] OTHER -> None

\* this.containers, the elements registered with the sensor
containers == {"c1", "c2"}

\* the elements whose offsetHeight is smaller than their scrollHeight
Overflowing == {"s1"}

\* closest(element, matcher): the element itself or its nearest ancestor
\* that matches, or none; matching is the set of the elements that are in the
\* list or satisfy the predicate
RECURSIVE closest(_, _)
closest(e, matching) ==
  IF e = None THEN None
  ELSE IF e \in matching THEN e
  ELSE closest(parentNode(e), matching)

\* ---------------------------------------------------------------- events
\* touch points, in page coordinates
P1 == [pageX |-> 10, pageY |-> 10]
P2 == [pageX |-> 20, pageY |-> 30]
\* <<window.scrollX, window.scrollY>>
ScrollPositions == {<<0, 10>>, <<10, 0>>}
Targets == {"a", "b", "x"}

\* <<touches, changedTouches>> of the touch events the browser produces
TouchLists == {<< <<P1>>, <<P2>> >>}

\* <<touches, changedTouches>> with either point first in touches, with
\* either list empty and with both empty
AnyTouchLists ==
  {<< <<P1>>, <<P2>> >>, << <<P2>>, <<P1>> >>,
   << <<>>, <<P2>> >>, << <<P1>>, <<>> >>, << <<>>, <<>> >>}

\* the touch lists of a touch-end or touch-move: one list empty, both empty
EndTouchLists ==
  TouchLists \cup {<< <<>>, <<P2>> >>, << <<P1>>, <<>> >>, << <<>>, <<>> >>}

\* the native touch events of the given types on the given targets, their
\* touch lists among lists
TouchEventsOf(types, targets, lists) ==
  {[type |-> ty, target |-> tg, touches |-> tl[1], changedTouches |-> tl[2]] :
     ty \in types, tg \in targets, tl \in lists}

TouchEvents(types, targets) == TouchEventsOf(types, targets, TouchLists)

NoEvent == [type |-> None, target |-> None, touches |-> <<>>, changedTouches |-> <<>>]

\* event.touches[0] || event.changedTouches[0] is a touch; it is undefined
\* when both lists are empty, and reading its pageX then throws
HasTouch(ev) == ev.touches # <<>> \/ ev.changedTouches # <<>>

\* a selection that prefers the changed touches
SelectTouch_ChangedFirst(ev) ==
  IF ev.changedTouches # <<>> THEN ev.changedTouches[1] ELSE ev.touches[1]

\* event.touches[0] || event.changedTouches[0]
SelectTouch(ev) ==
  IF ev.touches # <<>> THEN ev.touches[1] ELSE ev.changedTouches[1]

\* document.elementFromPoint(x, y) for a viewport point
elementFromPoint(vx, vy) ==
  IF vx < 0 \/ vy < 0 THEN None
  ELSE IF vy <= 10 THEN "a"
  ELSE IF vy <= 20 THEN "b"
  ELSE IF vx <= 10 THEN "x"
  ELSE "body"

\* ----------------------------------------------------------------- state
VARIABLES
  currentContainer,         \* this.currentContainer
  currentScrollableParent,  \* this.currentScrollableParent
  dragging,                 \* this.dragging
  tapTimeout,               \* this.tapTimeout: a timer id, 0 before the first
  listeners,                \* node -> set of <<event type, handler>>
  timers,                   \* the timer table, indexed by timer id
  now,                      \* the clock
  log,                      \* the events handed to trigger, in order
  last                      \* the latest step: handler, its event, its effects on it

sensor == <<currentContainer, currentScrollableParent, dragging, tapTimeout>>
vars == <<currentContainer, currentScrollableParent, dragging, tapTimeout,
          listeners, timers, now, log, last>>

L(type, handler) == <<type, handler>>

addEventListener(ls, node, type, handler) ==
  [ls EXCEPT ![node] = @ \cup {L(type, handler)}]

removeEventListener(ls, node, type, handler) ==
  [ls EXCEPT ![node] = @ \ {L(type, handler)}]

Listening(node, type, handler) == L(type, handler) \in listeners[node]

\* clearTimeout(id): cancels the timer if it is still pending
clearTimeout(ts, id) ==
  IF id \in DOMAIN ts /\ ts[id].state = "pending"
  THEN [ts EXCEPT ![id].state = "cleared"]
  ELSE ts

Pending == {id \in DOMAIN timers : timers[id].state = "pending"}

\* a call of a method or handler, before its effects on the event
Call(handler, ev) ==
  [handler |-> handler, event |-> ev, defaultPrevented |-> FALSE,
   propagationStopped |-> FALSE, dispatched |-> <<>>,
   scrollX |-> 0, scrollY |-> 0, faulted |-> FALSE, fresh |-> FALSE]

\* the entry trigger(container, sensorEvent) leaves in the log
Entry(type, container, gesture, canceled) ==
  [type |-> type, container |-> container, gesture |-> gesture, canceled |-> canceled]

\* the sensor event as constructed by the handler
SensorEvent(type, touch, target, container) ==
  [type |-> type, clientX |-> touch.pageX, clientY |-> touch.pageY,
   target |-> target, container |-> container]

\* the sensor as constructed: not attached, no gesture, tapTimeout not set
Init ==
  /\ currentContainer = None
  /\ currentScrollableParent = None
  /\ dragging = FALSE
  /\ tapTimeout = 0
  /\ listeners = [n \in Nodes |-> {}]
  /\ timers = <<>>
  /\ now = 0
  /\ log = <<>>
  /\ last = Call("constructor", NoEvent)

\* --------------------------------------------------------------- actions
\* fresh: the listener was not registered before the call
attach ==
  /\ listeners' = addEventListener(listeners, Document, "touchstart", "onTouchStart")
  /\ last' = [Call("attach", NoEvent) EXCEPT
                !.fresh = ~Listening(Document, "touchstart", "onTouchStart")]
  /\ UNCHANGED <<sensor, timers, now, log>>

\* a detach that removes the listener of another event type
detach_WrongType ==
  /\ listeners' = removeEventListener(listeners, Document, "touchend", "onTouchStart")
  /\ last' = [Call("detach", NoEvent) EXCEPT
                !.fresh = (last.handler = "attach" /\ last.fresh)]
  /\ UNCHANGED <<sensor, timers, now, log>>

\* fresh: the call follows, with nothing in between, an attach that was fresh
detach ==
  /\ listeners' = removeEventListener(listeners, Document, "touchstart", "onTouchStart")
  /\ last' = [Call("detach", NoEvent) EXCEPT
                !.fresh = (last.handler = "attach" /\ last.fresh)]
  /\ UNCHANGED <<sensor, timers, now, log>>

\* a native event for which the sensor has no listener on the node
NotDelivered(ev) ==
  /\ last' = Call("none", NoEvent)
  /\ UNCHANGED <<sensor, listeners, now, log>>

\* a scroll handler that ends the gesture: it also takes the scroll
\* listeners off and forgets the container
onScroll_Cleanup(ev, ts) ==
  /\ timers' = clearTimeout(ts, tapTimeout)
  /\ last' = Call("onScroll", ev)
  /\ listeners' = removeEventListener(listeners, Document, "scroll", "onScroll")
  /\ currentContainer' = None
  /\ UNCHANGED <<currentScrollableParent, dragging, tapTimeout, now, log>>

onScroll(ev, ts) ==
  /\ timers' = clearTimeout(ts, tapTimeout)
  /\ last' = Call("onScroll", ev)
  /\ UNCHANGED <<sensor, listeners, now, log>>

TouchStartListeners(ls, container, scrollable) ==
  LET l1 == addEventListener(ls, Document, "scroll", "onScroll")
      l2 == addEventListener(l1, container, "contextmenu", "onContextMenu")
  IN IF scrollable # None
     THEN addEventListener(l2, scrollable, "scroll", "onScroll")
     ELSE l2

\* a timer armed with no delay
NewTimer_NoDelay(ev, container) ==
  [event |-> ev, container |-> container, deadline |-> now,
   state |-> "pending", armedAt |-> now,
   scrolled |-> FALSE, tapped |-> FALSE]

\* setTimeout(this[onTouchHold](event, container), this.options.delay)
NewTimer(ev, container) ==
  [event |-> ev, container |-> container, deadline |-> now + Delay,
   state |-> "pending", armedAt |-> now,
   scrolled |-> FALSE, tapped |-> FALSE]

\* a touch-start handler that suppresses the default action before it looks
\* for the container
onTouchStart_PreventFirst(ev) ==
  LET container == closest(ev.target, containers)
      scrollable == closest(container, Overflowing)
  IN /\ last' = [Call("onTouchStart", ev) EXCEPT !.defaultPrevented = TRUE]
     /\ IF container = None
        THEN UNCHANGED <<sensor, listeners, timers, now, log>>
        ELSE /\ Len(timers) < MaxTimers
             /\ listeners' = TouchStartListeners(listeners, container, scrollable)
             /\ currentContainer' = container
             /\ currentScrollableParent' = scrollable
             /\ timers' = Append(timers, NewTimer(ev, container))
             /\ tapTimeout' = Len(timers) + 1
             /\ UNCHANGED <<dragging, now, log>>

onTouchStart(ev) ==
  LET container == closest(ev.target, containers)
      scrollable == closest(container, Overflowing)
  IN IF container = None
     THEN /\ last' = Call("onTouchStart", ev)
          /\ UNCHANGED <<sensor, listeners, timers, now, log>>
     ELSE /\ Len(timers) < MaxTimers
          /\ listeners' = TouchStartListeners(listeners, container, scrollable)
          /\ currentContainer' = container
          /\ currentScrollableParent' = scrollable
          /\ timers' = Append(timers, NewTimer(ev, container))
          /\ tapTimeout' = Len(timers) + 1
          /\ last' = [Call("onTouchStart", ev) EXCEPT !.defaultPrevented = TRUE]
          /\ UNCHANGED <<dragging, now, log>>

DragListeners(ls) ==
  LET l1 == addEventListener(ls, Document, "touchend", "onTouchEnd")
      l2 == addEventListener(l1, Document, "touchcancel", "onTouchEnd")
  IN addEventListener(l2, Document, "touchmove", "onTouchMove")

\* a drag that starts whatever the listeners of the start event answer
Dragging_Always(canceled) == TRUE

\* this.dragging = !dragStartEvent.canceled()
Dragging(canceled) == ~canceled

\* the callback onTouchHold(event, container) returns, run by timer id
onTouchHold(id, canceled) ==
  LET ev == timers[id].event
      container == timers[id].container
      touch == SelectTouch(ev)
      dragStartEvent == SensorEvent("drag:start", touch, ev.target, container)
  IN IF ~HasTouch(ev)
     THEN /\ last' = [Call("onTouchHold", ev) EXCEPT !.faulted = TRUE]
          /\ UNCHANGED <<sensor, listeners, now, log>>
     ELSE /\ Len(log) < MaxLog
          /\ log' = Append(log, Entry("drag:start", container, id, canceled))
          /\ currentContainer' = container
          /\ dragging' = Dragging(canceled)
          /\ listeners' = IF dragging' THEN DragListeners(listeners) ELSE listeners
          /\ last' = [Call("onTouchHold", ev) EXCEPT !.dispatched = <<dragStartEvent>>]
          /\ UNCHANGED <<currentScrollableParent, tapTimeout, now>>

\* a touch-move handler that stops propagation and suppresses the default
\* action before it tests this.dragging
onTouchMove_StopFirst(ev, scrollX, scrollY) ==
  IF ~dragging
  THEN /\ last' = [Call("onTouchMove", ev) EXCEPT
                     !.defaultPrevented = TRUE, !.propagationStopped = TRUE]
       /\ UNCHANGED <<sensor, listeners, timers, now, log>>
  ELSE LET touch == SelectTouch(ev)
           target == elementFromPoint(touch.pageX - scrollX, touch.pageY - scrollY)
           dragMoveEvent == SensorEvent("drag:move", touch, target, currentContainer)
       IN /\ Len(log) < MaxLog
          /\ log' = Append(log, Entry("drag:move", currentContainer, 0, FALSE))
          /\ last' = [Call("onTouchMove", ev) EXCEPT
                        !.defaultPrevented = TRUE, !.propagationStopped = TRUE,
                        !.dispatched = <<dragMoveEvent>>,
                        !.scrollX = scrollX, !.scrollY = scrollY]
          /\ UNCHANGED <<sensor, listeners, timers, now>>

\* a touch-move handler that looks the target up at the page coordinates,
\* the scroll offset not subtracted
onTouchMove_PagePoint(ev, scrollX, scrollY) ==
  IF ~dragging
  THEN /\ last' = Call("onTouchMove", ev)
       /\ UNCHANGED <<sensor, listeners, timers, now, log>>
  ELSE IF ~HasTouch(ev)
  THEN /\ last' = [Call("onTouchMove", ev) EXCEPT
                     !.defaultPrevented = TRUE, !.propagationStopped = TRUE,
                     !.faulted = TRUE]
       /\ UNCHANGED <<sensor, listeners, timers, now, log>>
  ELSE LET touch == SelectTouch(ev)
           target == elementFromPoint(touch.pageX, touch.pageY)
           dragMoveEvent == SensorEvent("drag:move", touch, target, currentContainer)
       IN /\ Len(log) < MaxLog
          /\ log' = Append(log, Entry("drag:move", currentContainer, 0, FALSE))
          /\ last' = [Call("onTouchMove", ev) EXCEPT
                        !.defaultPrevented = TRUE, !.propagationStopped = TRUE,
                        !.dispatched = <<dragMoveEvent>>,
                        !.scrollX = scrollX, !.scrollY = scrollY]
          /\ UNCHANGED <<sensor, listeners, timers, now>>

onTouchMove(ev, scrollX, scrollY) ==
  IF ~dragging
  THEN /\ last' = Call("onTouchMove", ev)
       /\ UNCHANGED <<sensor, listeners, timers, now, log>>
  ELSE IF ~HasTouch(ev)
  THEN /\ last' = [Call("onTouchMove", ev) EXCEPT
                     !.defaultPrevented = TRUE, !.propagationStopped = TRUE,
                     !.faulted = TRUE]
       /\ UNCHANGED <<sensor, listeners, timers, now, log>>
  ELSE LET touch == SelectTouch(ev)
           target == elementFromPoint(touch.pageX - scrollX, touch.pageY - scrollY)
           dragMoveEvent == SensorEvent("drag:move", touch, target, currentContainer)
       IN /\ Len(log) < MaxLog
          /\ log' = Append(log, Entry("drag:move", currentContainer, 0, FALSE))
          /\ last' = [Call("onTouchMove", ev) EXCEPT
                        !.defaultPrevented = TRUE, !.propagationStopped = TRUE,
                        !.dispatched = <<dragMoveEvent>>,
                        !.scrollX = scrollX, !.scrollY = scrollY]
          /\ UNCHANGED <<sensor, listeners, timers, now>>

\* the scroll and context-menu listeners onTouchEnd removes; its container
\* is event.currentTarget, the node the listener is registered on
TouchEndListeners(ls, container, scrollable) ==
  LET l1 == removeEventListener(ls, Document, "scroll", "onScroll")
      l2 == removeEventListener(l1, container, "contextmenu", "onContextMenu")
  IN IF scrollable # None
     THEN removeEventListener(l2, scrollable, "scroll", "onScroll")
     ELSE l2

NoDragListeners(ls) ==
  LET l1 == removeEventListener(ls, Document, "touchend", "onTouchEnd")
      l2 == removeEventListener(l1, Document, "touchcancel", "onTouchEnd")
  IN removeEventListener(l2, Document, "touchmove", "onTouchMove")

\* a touch-end handler that reads the coordinates of the touch before it
\* removes the scroll and context-menu listeners and clears the timer
onTouchEnd_LookupFirst(ev, ts) ==
  IF ~dragging
  THEN /\ last' = Call("onTouchEnd", ev)
       /\ timers' = ts
       /\ UNCHANGED <<sensor, listeners, now, log>>
  ELSE IF ~HasTouch(ev)
  THEN /\ timers' = ts
       /\ last' = [Call("onTouchEnd", ev) EXCEPT !.faulted = TRUE]
       /\ UNCHANGED <<sensor, listeners, now, log>>
  ELSE LET container == Document
           touch == SelectTouch(ev)
           dragStopEvent == SensorEvent("drag:stop", touch, None, currentContainer)
       IN /\ Len(log) < MaxLog
          /\ timers' = clearTimeout(ts, tapTimeout)
          /\ log' = Append(log, Entry("drag:stop", currentContainer, 0, FALSE))
          /\ listeners' = NoDragListeners(
                            TouchEndListeners(listeners, container, currentScrollableParent))
          /\ currentContainer' = None
          /\ dragging' = FALSE
          /\ last' = [Call("onTouchEnd", ev) EXCEPT
                        !.defaultPrevented = TRUE, !.dispatched = <<dragStopEvent>>]
          /\ UNCHANGED <<currentScrollableParent, tapTimeout, now>>

\* ts is the timer table the event finds; the second test of this.dragging
\* (line 154) sees the value the first one saw.  Without a touch the handler
\* throws when it builds the stop event, after the scroll and context-menu
\* listeners, the timer and preventDefault
onTouchEnd(ev, ts) ==
  IF ~dragging
  THEN /\ last' = Call("onTouchEnd", ev)
       /\ timers' = ts
       /\ UNCHANGED <<sensor, listeners, now, log>>
  ELSE IF ~HasTouch(ev)
  THEN /\ timers' = clearTimeout(ts, tapTimeout)
       /\ listeners' = TouchEndListeners(listeners, Document, currentScrollableParent)
       /\ last' = [Call("onTouchEnd", ev) EXCEPT
                     !.defaultPrevented = TRUE, !.faulted = TRUE]
       /\ UNCHANGED <<sensor, now, log>>
  ELSE LET container == Document
           touch == SelectTouch(ev)
           dragStopEvent == SensorEvent("drag:stop", touch, None, currentContainer)
       IN /\ Len(log) < MaxLog
          /\ timers' = clearTimeout(ts, tapTimeout)
          /\ log' = Append(log, Entry("drag:stop", currentContainer, 0, FALSE))
          /\ listeners' = NoDragListeners(
                            TouchEndListeners(listeners, container, currentScrollableParent))
          /\ currentContainer' = None
          /\ dragging' = FALSE
          /\ last' = [Call("onTouchEnd", ev) EXCEPT
                        !.defaultPrevented = TRUE, !.dispatched = <<dragStopEvent>>]
          /\ UNCHANGED <<currentScrollableParent, tapTimeout, now>>

\* function onContextMenu(event)
onContextMenu(ev) ==
  /\ last' = [Call("onContextMenu", ev) EXCEPT !.defaultPrevented = TRUE]
  /\ UNCHANGED <<sensor, listeners, timers, now, log>>

\* ----------------------------------------------------------- environment
\* the browser delivers a touch-start to the document
TouchStartOf(lists) ==
  \E ev \in TouchEventsOf({"touchstart"}, Targets, lists) :
    /\ IF Listening(Document, "touchstart", "onTouchStart")
       THEN onTouchStart(ev)
       ELSE NotDelivered(ev) /\ UNCHANGED timers

TouchStart == TouchStartOf(TouchLists)

\* the browser runs the callback of timer id, the oldest pending one; a
\* listener of the start event cancels it or not
RunTimer(id) ==
  /\ \A other \in Pending : other >= id
  /\ \E canceled \in BOOLEAN : onTouchHold(id, canceled)
  /\ timers' = [timers EXCEPT ![id].state = "fired"]

\* without the clock: the delay of a pending timer elapses at some point
TimerFire == \E id \in Pending : RunTimer(id)

\* with the clock: a timer runs once its delay has elapsed
TimerDue == \E id \in Pending : now >= timers[id].deadline /\ RunTimer(id)

\* a touch that started a gesture moves
TouchMoveOf(lists) ==
  \E g \in DOMAIN timers, scroll \in ScrollPositions,
     ev \in TouchEventsOf({"touchmove"}, Targets, lists) :
    /\ ev.target = timers[g].event.target
    /\ IF Listening(Document, "touchmove", "onTouchMove")
       THEN onTouchMove(ev, scroll[1], scroll[2])
       ELSE NotDelivered(ev) /\ UNCHANGED timers

TouchMove == TouchMoveOf(TouchLists)

\* a touch lifts (touchend) or is taken away (touchcancel): the touch of
\* gesture g, a tap if the long press of g is still pending, or (g = 0) a
\* touch that started no gesture
Lifted(g) ==
  IF g \in Pending THEN [timers EXCEPT ![g].tapped = TRUE] ELSE timers

TouchEndOf(lists) ==
  \E g \in {0} \cup DOMAIN timers,
     ev \in TouchEventsOf({"touchend", "touchcancel"}, Targets, lists) :
    /\ ev.target = IF g = 0 THEN "x" ELSE timers[g].event.target
    /\ IF Listening(Document, ev.type, "onTouchEnd")
       THEN onTouchEnd(ev, Lifted(g))
       ELSE NotDelivered(ev) /\ timers' = Lifted(g)

TouchEnd == TouchEndOf(TouchLists)

\* the gestures a scroll at node disqualifies: those still pending whose
\* scroll listener sits on node
Scrolled(node) ==
  [id \in DOMAIN timers |->
     IF /\ timers[id].state = "pending"
        /\ node \in {Document, closest(timers[id].container, Overflowing)}
     THEN [timers[id] EXCEPT !.scrolled = TRUE]
     ELSE timers[id]]

Scroll ==
  \E node \in {Document} \cup Overflowing :
    LET ev == [NoEvent EXCEPT !.type = "scroll", !.target = node]
    IN IF Listening(node, "scroll", "onScroll")
       THEN onScroll(ev, Scrolled(node))
       ELSE NotDelivered(ev) /\ UNCHANGED timers

\* a context-menu event bubbles from its target up to the document
RECURSIVE Suppressed(_)
Suppressed(e) ==
  IF e = None THEN FALSE
  ELSE Listening(e, "contextmenu", "onContextMenu") \/ Suppressed(parentNode(e))

ContextMenu ==
  \E tg \in Targets :
    LET ev == [NoEvent EXCEPT !.type = "contextmenu", !.target = tg]
    IN IF Suppressed(tg)
       THEN onContextMenu(ev)
       ELSE NotDelivered(ev) /\ UNCHANGED timers

Tick ==
  /\ now < MaxTime
  /\ now' = now + 1
  /\ last' = Call("tick", NoEvent)
  /\ UNCHANGED <<sensor, listeners, timers, log>>

\* the gesture state machine, the clock left out
Next ==
  \/ attach
  \/ detach
  \/ TouchStart
  \/ TimerFire
  \/ TouchMove
  \/ TouchEnd
  \/ Scroll
  \/ ContextMenu

Spec == Init /\ [][Next]_vars

\* the same machine under the clock
TouchStartTimed == Len(timers) < MaxTimedTimers /\ TouchStart

NextTimed ==
  \/ attach
  \/ detach
  \/ TouchStartTimed
  \/ TimerDue
  \/ TouchMove
  \/ TouchEnd
  \/ Scroll
  \/ ContextMenu
  \/ Tick

SpecTimed == Init /\ [][NextTimed]_vars

\* gestures under every touch list, well formed or not
TouchStartAny == Len(timers) < MaxTouchTimers /\ TouchStartOf(AnyTouchLists)
TouchMoveAny == TouchMoveOf(AnyTouchLists)
TouchEndAny == TouchEndOf(AnyTouchLists)

NextTouch ==
  \/ attach
  \/ TouchStartAny
  \/ TimerFire
  \/ TouchMoveAny
  \/ TouchEndAny

SpecTouch == Init /\ [][NextTouch]_vars

\* overlapping gestures whose touch-move and touch-end events may come
\* without a touch point
TouchMoveMalformed == TouchMoveOf(EndTouchLists)
TouchEndMalformed == TouchEndOf(EndTouchLists)

NextMalformed ==
  \/ attach
  \/ TouchStart
  \/ TimerFire
  \/ TouchMoveMalformed
  \/ TouchEndMalformed

SpecMalformed == Init /\ [][NextMalformed]_vars

\* ---------------------------------------------------------------- claims
\* the step is a call of the handler
Handled(handler) == last'.handler = handler

\* the step hands an event of the type to trigger
Dispatches(type) ==
  /\ Len(log') = Len(log) + 1
  /\ log'[Len(log')].type = type

\* C1: a touch-start whose target has no registered container as nearest
\* matching ancestor changes nothing: the sensor's fields, every listener
\* table, the timer table and the dispatched events stay as they are, and
\* preventDefault is not called on the event.
C1_NoContainerNoEffect ==
  [][(Handled("onTouchStart") /\ closest(last'.event.target, containers) = None)
       => /\ UNCHANGED <<currentContainer, currentScrollableParent, dragging, tapTimeout>>
          /\ UNCHANGED <<listeners, timers, log>>
          /\ last'.dispatched = <<>>
          /\ ~last'.defaultPrevented]_vars

\* a touch-start outside every container, handled in the middle of a drag
C1_Witness ==
  /\ last.handler = "onTouchStart"
  /\ closest(last.event.target, containers) = None
  /\ dragging
  /\ Pending # {}

\* C10: the scroll handler cancels the timer tapTimeout refers to and nothing
\* else: every other timer, the listeners of the document, of the container
\* and of the scrollable ancestor, currentContainer, currentScrollableParent
\* and dragging keep their values, and no drag event is dispatched.
C10_ScrollClearsTimerOnly ==
  [][Handled("onScroll")
       => /\ UNCHANGED <<currentContainer, currentScrollableParent, dragging, tapTimeout>>
          /\ UNCHANGED <<listeners, log>>
          /\ last'.dispatched = <<>>
          /\ tapTimeout \notin Pending'
          /\ \A id \in DOMAIN timers \ {tapTimeout} :
                timers'[id].state = timers[id].state
          /\ DOMAIN timers' = DOMAIN timers]_vars

\* a scroll has cancelled a pending long press and left the gesture's
\* listeners and container in place
C10_Witness ==
  /\ last.handler = "onScroll"
  /\ tapTimeout \in DOMAIN timers
  /\ timers[tapTimeout].state = "cleared"
  /\ timers[tapTimeout].scrolled
  /\ currentContainer = "c1"
  /\ currentScrollableParent = "s1"
  /\ Listening(Document, "scroll", "onScroll")
  /\ Listening("s1", "scroll", "onScroll")
  /\ Listening("c1", "contextmenu", "onContextMenu")

\* the latest event handed to trigger
LastEntry(l) == l[Len(l)]

\* C4: when a listener cancels the start event, dragging is false after the
\* long-press callback and the callback registers no listener; no move and
\* no stop event follows the canceled start event: the next drag event, if
\* there is one, is the start event of another gesture.
C4_CanceledStartEndsGesture ==
  [][/\ (Handled("onTouchHold") /\ Dispatches("drag:start") /\ LastEntry(log').canceled)
          => (~dragging' /\ listeners' = listeners)
     /\ (Dispatches("drag:move") \/ Dispatches("drag:stop"))
          => /\ Len(log) > 0
             /\ ~(LastEntry(log).type = "drag:start" /\ LastEntry(log).canceled)]_vars

\* a touch-move reaches the handler after a canceled start event, through the
\* listeners of an earlier drag, and dispatches nothing
C4_Witness ==
  /\ last.handler = "onTouchMove"
  /\ last.dispatched = <<>>
  /\ Len(log) > 0
  /\ LastEntry(log).type = "drag:start"
  /\ LastEntry(log).canceled
  /\ ~dragging

\* C5: the touch-start handler of a touch with a matching container
\* dispatches no drag event and arms exactly one timer, due options.delay
\* after the touch-start; a start event is dispatched only by the callback of
\* the timer of its gesture, so never earlier than options.delay after the
\* touch-start that armed it.
C5_StartOnlyAfterDelay ==
  [][/\ (Handled("onTouchStart") /\ closest(last'.event.target, containers) # None)
          => /\ log' = log
             /\ last'.dispatched = <<>>
             /\ Len(timers') = Len(timers) + 1
             /\ \A id \in DOMAIN timers : timers'[id] = timers[id]
             /\ timers'[Len(timers')].state = "pending"
             /\ timers'[Len(timers')].deadline = now + Delay
     /\ Dispatches("drag:start")
          => /\ Handled("onTouchHold")
             /\ LET g == LastEntry(log').gesture
                IN /\ g \in Pending
                   /\ timers'[g].state = "fired"
                   /\ now >= timers[g].armedAt + Delay]_vars

\* a start event dispatched by the timer of a touch-start that was handled
\* after the clock had started
C5_Witness ==
  /\ last.handler = "onTouchHold"
  /\ Len(log) > 0
  /\ LastEntry(log).type = "drag:start"
  /\ timers[LastEntry(log).gesture].armedAt > 0
  /\ now = timers[LastEntry(log).gesture].armedAt + Delay

\* the start events dispatched so far
Starts == {i \in DOMAIN log : log[i].type = "drag:start"}

\* C2: a gesture whose pending long press saw a scroll event, on the
\* document or on its recorded scrollable ancestor, between its touch-start
\* and the firing of its timer never has its start event dispatched.
C2_ScrollCancelsStart ==
  \A i \in Starts : ~timers[log[i].gesture].scrolled

\* a drag is open: a start event that was not canceled and no stop event
\* after it
OpenDrag(l) ==
  \E i \in DOMAIN l :
    /\ l[i].type = "drag:start"
    /\ ~l[i].canceled
    /\ \A j \in DOMAIN l : j > i => l[j].type # "drag:stop"

\* the step is a touch-end or touch-cancel event on the document, which
\* reaches the handler: the listeners of an open drag are registered
TouchEnds == Handled("onTouchEnd")

\* C3: after a start event that was dispatched and not canceled, the next
\* touch-end or touch-cancel on the document dispatches exactly one stop
\* event, with target null, and none is dispatched once the drag is stopped.
C3_ExactlyOneStop ==
  [][/\ (TouchEnds /\ OpenDrag(log))
          => /\ Dispatches("drag:stop")
             /\ last'.dispatched # <<>>
             /\ last'.dispatched[1].target = None
     /\ Dispatches("drag:stop") => OpenDrag(log)]_vars

\* C6: a touch that lifts before its long-press timer fires (a tap) never
\* has a start event dispatched for it.
C6_TapStartsNoDrag ==
  \A i \in Starts : ~timers[log[i].gesture].tapped

\* the step is the touch-end handler processing the end of an active drag
EndsDrag == Handled("onTouchEnd") /\ dragging

\* C7: after the touch-end handler has processed the end of an active drag,
\* currentContainer and currentScrollableParent are none, dragging is false
\* and no long-press timer is pending.
C7_EndResetsState ==
  [][EndsDrag
       => /\ currentContainer' = None
          /\ currentScrollableParent' = None
          /\ ~dragging'
          /\ Pending' = {}]_vars

\* C8: after the touch-end handler has processed the end of an active drag,
\* the document has no scroll listener of the sensor, the recorded container
\* has no context-menu suppressor and the recorded scrollable ancestor, if
\* any, has no scroll listener of the sensor.
C8_EndRemovesListeners ==
  [][EndsDrag
       => /\ L("scroll", "onScroll") \notin listeners'[Document]
          /\ currentContainer # None
               => L("contextmenu", "onContextMenu") \notin listeners'[currentContainer]
          /\ currentScrollableParent # None
               => L("scroll", "onScroll") \notin listeners'[currentScrollableParent]]_vars

\* the listeners a gesture adds
GestureScoped ==
  {L("scroll", "onScroll"), L("contextmenu", "onContextMenu"),
   L("touchend", "onTouchEnd"), L("touchcancel", "onTouchEnd"),
   L("touchmove", "onTouchMove")}

\* C9: whenever no gesture is in progress (no long-press timer pending and
\* dragging false), no node has a gesture-scoped listener of the sensor.
C9_ListenersGestureScoped ==
  (Pending = {} /\ ~dragging)
    => \A n \in Nodes : listeners[n] \cap GestureScoped = {}

\* the touch-start listener attach adds and detach removes
TouchStartListener == L("touchstart", "onTouchStart")

\* the step leaves the gesture as it is: fields, timers, dispatched events
SameGesture ==
  /\ UNCHANGED <<currentContainer, currentScrollableParent, dragging, tapTimeout>>
  /\ UNCHANGED <<timers, log>>

\* C11 (as stated): attach() adds exactly one listener and changes nothing
\* else, and attach() followed at once by detach() leaves the document with
\* the listeners it had before attach(): those it has after attach() less
\* the touch-start listener if attach() added it, the same otherwise.
C11_AttachDetachRoundTrip ==
  [][/\ (Handled("attach") /\ last' # last)
          => /\ Cardinality(listeners'[Document]) = Cardinality(listeners[Document]) + 1
             /\ SameGesture
     /\ (last.handler = "attach" /\ Handled("detach"))
          => listeners' = IF last.fresh
                          THEN removeEventListener(listeners, Document,
                                                   "touchstart", "onTouchStart")
                          ELSE listeners]_vars

\* C11 (amended): attach() leaves the document with the touch-start listener
\* registered, once, and detach() leaves it without; neither touches another
\* listener, a field, a timer or the dispatched events.  attach() followed at
\* once by detach() restores the listeners when the sensor was not attached
\* before that attach().  While the sensor is not attached no touch-start
\* reaches the handler and no timer is armed.
C11_AttachDetach ==
  [][/\ Handled("attach")
          => /\ listeners' = [listeners EXCEPT
                                ![Document] = @ \cup {TouchStartListener}]
             /\ SameGesture
     /\ Handled("detach")
          => /\ listeners' = [listeners EXCEPT
                                ![Document] = @ \ {TouchStartListener}]
             /\ SameGesture
     /\ (last.handler = "attach" /\ last.fresh /\ Handled("detach"))
          => listeners'[Document] = listeners[Document] \ {TouchStartListener}
     /\ ~Listening(Document, "touchstart", "onTouchStart")
          => /\ Handled("onTouchStart") => last' = last
             /\ Len(timers') = Len(timers)]_vars

\* detach() has just undone an attach() that registered the listener, in
\* the middle of a gesture
C11_Witness ==
  /\ last.handler = "detach"
  /\ last.fresh
  /\ ~Listening(Document, "touchstart", "onTouchStart")
  /\ Pending # {}

\* C12: move events are dispatched only while dragging is true.  A
\* touch-move handled while dragging is false dispatches no event, does not
\* stop propagation and does not suppress the default action; a touch-move
\* handled while dragging is true dispatches exactly one event, a move event,
\* stops propagation, suppresses the default action and changes no field of
\* the sensor; no other step dispatches a move event.
C12_MoveOnlyWhileDragging ==
  [][/\ (Handled("onTouchMove") /\ ~dragging)
          => /\ log' = log
             /\ last'.dispatched = <<>>
             /\ ~last'.propagationStopped
             /\ ~last'.defaultPrevented
             /\ UNCHANGED <<currentContainer, currentScrollableParent, dragging, tapTimeout>>
     /\ (Handled("onTouchMove") /\ dragging)
          => /\ Dispatches("drag:move")
             /\ Len(last'.dispatched) = 1
             /\ last'.dispatched[1].type = "drag:move"
             /\ last'.propagationStopped
             /\ last'.defaultPrevented
             /\ UNCHANGED <<currentContainer, currentScrollableParent, dragging, tapTimeout>>
     /\ Dispatches("drag:move") => (Handled("onTouchMove") /\ dragging)]_vars

\* a move event dispatched during a drag, a second long press still pending
C12_Witness ==
  /\ last.handler = "onTouchMove"
  /\ Len(last.dispatched) = 1
  /\ LastEntry(log).type = "drag:move"
  /\ dragging
  /\ Pending # {}

\* the step hands a sensor event to trigger
Triggers == last'.dispatched # <<>> /\ last' # last

\* the touch point of a native event: the first active touch, or the first
\* changed touch when no touch is active
FirstTouch(ev) ==
  IF Len(ev.touches) > 0 THEN ev.touches[1] ELSE ev.changedTouches[1]

\* C13: every dispatched event carries the page coordinates of the first
\* active touch of its native event, or of the first changed touch when no
\* touch is active.  The native event of a start event is the touch-start
\* event the fired timer was armed with; that of a move event is the
\* touch-move, that of a stop event the touch-end or touch-cancel being
\* handled.
C13_CoordinatesOfSelectedTouch ==
  [][Triggers
       => LET e == last'.dispatched[1]
              ev == last'.event
          IN /\ Len(ev.touches) > 0 \/ Len(ev.changedTouches) > 0
             /\ e.clientX = FirstTouch(ev).pageX
             /\ e.clientY = FirstTouch(ev).pageY
             /\ e.type = "drag:start"
                  => /\ ev.type = "touchstart"
                     /\ \E id \in Pending :
                          /\ timers'[id].state = "fired"
                          /\ timers[id].event = ev
             /\ e.type = "drag:move" => (Handled("onTouchMove") /\ ev.type = "touchmove")
             /\ e.type = "drag:stop"
                  => (Handled("onTouchEnd") /\ ev.type \in {"touchend", "touchcancel"})]_vars

\* a stop event that took its coordinates from the changed touches, no
\* touch being active any more
C13_Witness ==
  /\ last.handler = "onTouchEnd"
  /\ Len(last.dispatched) = 1
  /\ last.event.touches = <<>>
  /\ last.dispatched[1].clientX = P2.pageX
  /\ last.dispatched[1].clientY = P2.pageY

\* C14: the target of every move event is the element at the viewport point
\* (pageX - scrollX, pageY - scrollY) of the touch point of the touch-move;
\* the target of a start event is the target of its touch-start event, and
\* the target of a stop event is none.
C14_Targets ==
  [][Triggers
       => LET e == last'.dispatched[1]
              ev == last'.event
          IN /\ e.type = "drag:move"
                  => e.target = elementFromPoint(FirstTouch(ev).pageX - last'.scrollX,
                                                 FirstTouch(ev).pageY - last'.scrollY)
             /\ e.type = "drag:start" => (ev.type = "touchstart" /\ e.target = ev.target)
             /\ e.type = "drag:stop" => e.target = None]_vars

\* a move event whose target is not the element at the page coordinates of
\* the touch: the page is scrolled
C14_Witness ==
  /\ last.handler = "onTouchMove"
  /\ Len(last.dispatched) = 1
  /\ last.scrollX > 0
  /\ last.dispatched[1].target = "x"
  /\ elementFromPoint(last.dispatched[1].clientX, last.dispatched[1].clientY) = "body"

\* the native event carries no touch point: both lists are empty
NoTouchPoint(ev) == Len(ev.touches) = 0 /\ Len(ev.changedTouches) = 0

\* the native event is a touch event with exactly one of its lists empty
OneListEmpty(ev) ==
  /\ ev.type \in {"touchstart", "touchmove", "touchend", "touchcancel"}
  /\ (Len(ev.touches) = 0) # (Len(ev.changedTouches) = 0)

\* C15: a touch-end or touch-cancel handled during a drag with both touch
\* lists empty faults: no stop event is dispatched, dragging stays true,
\* currentContainer stays set and the touch-end, touch-cancel and touch-move
\* listeners stay registered, while the scroll listener of the document and
\* that of the recorded scrollable ancestor are removed and the timer of
\* tapTimeout is cleared.  A handler faults only on an event with both lists
\* empty, never on one with exactly one list empty.
C15_NoTouchPointFaults ==
  [][/\ (Handled("onTouchEnd") /\ dragging /\ NoTouchPoint(last'.event))
          => /\ last'.faulted
             /\ log' = log
             /\ last'.dispatched = <<>>
             /\ dragging'
             /\ currentContainer # None
             /\ currentContainer' = currentContainer
             /\ {L("touchend", "onTouchEnd"), L("touchcancel", "onTouchEnd"),
                 L("touchmove", "onTouchMove")} \subseteq listeners'[Document]
             /\ L("scroll", "onScroll") \notin listeners'[Document]
             /\ currentScrollableParent # None
                  => L("scroll", "onScroll") \notin listeners'[currentScrollableParent]
             /\ tapTimeout \notin Pending'
     /\ OneListEmpty(last'.event) => ~last'.faulted
     /\ last'.faulted => NoTouchPoint(last'.event)]_vars

\* a touch-end without a touch point has faulted in the middle of a drag,
\* after it cleared the pending timer of a second touch-start
C15_Witness ==
  /\ last.handler = "onTouchEnd"
  /\ last.faulted
  /\ dragging
  /\ currentContainer # None
  /\ Len(timers) = 2
  /\ tapTimeout = 2
  /\ timers[2].state = "cleared"
  /\ ~timers[2].tapped
  /\ ~Listening(Document, "scroll", "onScroll")
  /\ Listening(Document, "touchend", "onTouchEnd")

\* C16: start and stop events alternate: no start event is dispatched while
\* a drag is open, and every move and stop event is dispatched while one is.
C16_StartStopAlternate ==
  [][/\ Dispatches("drag:start") => ~OpenDrag(log)
     /\ (Dispatches("drag:move") \/ Dispatches("drag:stop")) => OpenDrag(log)]_vars

\* the most recent start event that was not canceled, 0 if there is none
RecentStart(l) ==
  LET started == {i \in DOMAIN l : l[i].type = "drag:start" /\ ~l[i].canceled}
  IN IF started = {} THEN 0
     ELSE CHOOSE i \in started : \A j \in started : j <= i

\* C17: every move event and every stop event carries, and is dispatched
\* to, the container of the most recent start event that was not canceled.
C17_ContainerOfRecentStart ==
  [][((Dispatches("drag:move") \/ Dispatches("drag:stop")) /\ RecentStart(log) > 0)
       => /\ LastEntry(log').container = log[RecentStart(log)].container
          /\ last'.dispatched[1].container = log[RecentStart(log)].container]_vars

\* C18: every pending long-press timer is the one tapTimeout refers to, so
\* at most one is pending.
C18_OnePendingTimer ==
  Pending \subseteq {tapTimeout}

\* C19: dragging is true if and only if the document has the touch-end,
\* touch-cancel and touch-move listeners of the sensor.
C19_DraggingIffListeners ==
  dragging <=> /\ Listening(Document, "touchend", "onTouchEnd")
               /\ Listening(Document, "touchcancel", "onTouchEnd")
               /\ Listening(Document, "touchmove", "onTouchMove")

\* the sensor is attached: the document has its touch-start listener
Attached == Listening(Document, "touchstart", "onTouchStart")

\* C20: from detach() on, until the sensor is attached again, no start event
\* is dispatched and no node has a gesture-scoped listener of the sensor.
C20_DetachedIsQuiet ==
  [][/\ ~Attached => ~Dispatches("drag:start")
     /\ Handled("detach")
          => \A n \in Nodes : listeners'[n] \cap GestureScoped = {}]_vars

====
